---- MODULE Spec2Model ----
(***************************************************************************)
(* Model of icecube's object-store filesystem (pkg/s3fs): S3FileSystem     *)
(* (parse, key, Join, ReadDir, Stat, Size, Open, HeadObject, IsNotExist,   *)
(* NewS3FileSystem) and the ReadSeeker range reader, against a model of    *)
(* the S3 operations they call (ListBuckets, ListObjects, HeadBucket,      *)
(* HeadObject, GetObject); of the Stat of the one-bucket file system of    *)
(* pkg/fs; and of the serve command (checkConfig, the start of the         *)
(* listeners, the handler of the https server) with server.CheckPath.      *)
(*                                                                         *)
(* A Go string is a sequence of tokens: the token "/" or a name that       *)
(* holds no slash ("docs", "a.txt").  An error is the chain of its layers, *)
(* outermost first; the empty chain is nil.  A time is an integer; the     *)
(* zero time.Time{} is 0.                                                  *)
(***************************************************************************)
EXTENDS Integers, Sequences, FiniteSets, TLC

\* ------------------------------------------------------------------ bounds
MaxItems == 21          \* children of the bulk directory big/
MaxPageSize == 2        \* backend's internal page size, 1..MaxPageSize
MaxMaxEntries == 2      \* configured maxEntries, -1..MaxMaxEntries
MaxBuf == 2             \* length of the caller's Read buffer, 1..MaxBuf
MaxSeek == 1            \* largest |offset| argument of Seek, and overshoot of the stream's ends
MaxPathLen == 4         \* tokens ("/" or a name) of a path handed to CheckPath

\* ------------------------------------------------- strings, path, errors
Min(a, b) == IF a < b THEN a ELSE b

SLASH == "/"

HasPrefix(s, p) == Len(p) <= Len(s) /\ SubSeq(s, 1, Len(p)) = p

TrimPrefix(s, p) == IF HasPrefix(s, p) THEN SubSeq(s, Len(p) + 1, Len(s)) ELSE s

\* strings.Split(s, "/"): the fields between the slashes; one empty field
\* for the empty string.
RECURSIVE Split(_)
Split(s) ==
    IF \A i \in 1..Len(s) : s[i] # SLASH THEN <<s>>
    ELSE LET j == CHOOSE i \in 1..Len(s) :
                      s[i] = SLASH /\ \A k \in 1..(i - 1) : s[k] # SLASH
         IN <<SubSeq(s, 1, j - 1)>> \o Split(SubSeq(s, j + 1, Len(s)))

\* the elements of parts joined with "/" between them
RECURSIVE JoinSlash(_)
JoinSlash(parts) ==
    IF Len(parts) = 0 THEN <<>>
    ELSE IF Len(parts) = 1 THEN parts[1]
    ELSE parts[1] \o <<SLASH>> \o JoinSlash(Tail(parts))

\* path.Clean's pass over the elements: drops "" and ".", ".." removes the
\* element before it (dropped at the root, kept at the start of a relative
\* path).
RECURSIVE CleanParts(_, _, _)
CleanParts(parts, out, rooted) ==
    IF Len(parts) = 0 THEN out
    ELSE LET e == parts[1]
             rest == Tail(parts)
         IN IF e = <<>> \/ e = <<".">> THEN CleanParts(rest, out, rooted)
            ELSE IF e = <<"..">>
                 THEN IF Len(out) > 0 /\ out[Len(out)] # <<"..">>
                      THEN CleanParts(rest, SubSeq(out, 1, Len(out) - 1), rooted)
                      ELSE IF rooted THEN CleanParts(rest, out, rooted)
                      ELSE CleanParts(rest, Append(out, e), rooted)
                 ELSE CleanParts(rest, Append(out, e), rooted)

Clean(s) ==
    IF s = <<>> THEN <<".">>
    ELSE LET rooted == s[1] = SLASH
             body == JoinSlash(CleanParts(Split(s), <<>>, rooted))
         IN IF rooted THEN <<SLASH>> \o body
            ELSE IF body = <<>> THEN <<".">> ELSE body

RECURSIVE NonEmpty(_)
NonEmpty(elems) ==
    IF Len(elems) = 0 THEN <<>>
    ELSE IF elems[1] = <<>> THEN NonEmpty(Tail(elems))
    ELSE <<elems[1]>> \o NonEmpty(Tail(elems))

\* S3FileSystem.Join = path.Join: empty elements are ignored, the rest is
\* joined with "/" and cleaned; "" when nothing is left.
Join(elems) ==
    IF NonEmpty(elems) = <<>> THEN <<>> ELSE Clean(JoinSlash(NonEmpty(elems)))

\* error chains
Nil == <<>>
OperationError == [t |-> "OperationError", status |-> 0]
ResponseError(status) == <<OperationError, [t |-> "ResponseError", status |-> status]>>
NetworkError == <<OperationError, [t |-> "RequestSendError", status |-> 0]>>
RangeError == ResponseError(416)
\* fmt.Errorf("...: %w", err)
Errorf(err) == <<[t |-> "wrapError", status |-> 0]>> \o err
EOF == <<[t |-> "EOF", status |-> 0]>>
ErrUnexpectedEOF == <<[t |-> "ErrUnexpectedEOF", status |-> 0]>>
ConfigError == <<[t |-> "errorString", status |-> 0]>>
\* what a client call returns when its context is cancelled
Canceled == <<OperationError, [t |-> "RequestCanceledError", status |-> 0]>>

\* a context.Context: which context it is and whether it is cancelled
NewContext == [name |-> "ctx", cancelled |-> FALSE]

ZeroTime == 0

\* a Go map read: the zero value for a missing key
Lookup(m, k, zero) == IF k \in DOMAIN m THEN m[k] ELSE zero

\* ------------------------------------------------------ the object store
\* The account: three buckets.  docs holds a.txt (10 bytes), the zero-byte
\* marker sub/ and sub/b.txt (5 bytes); data holds the bulk directory big/
\* with n children, an object both that also has a child both/x, and
\* pre/c.txt; logs is empty.  Keys are kept in the store's (lexicographic)
\* listing order.
DefaultRegion == "us-east-1"
OtherRegion == "us-west-2"
Regions == {DefaultRegion, OtherRegion}

Docs == <<"docs">>
Data == <<"data">>
Logs == <<"logs">>

AccountBuckets ==
    << [name |-> Data, creationDate |-> 3, region |-> DefaultRegion],
       [name |-> Docs, creationDate |-> 5, region |-> OtherRegion],
       [name |-> Logs, creationDate |-> 7, region |-> DefaultRegion] >>

BucketNames == {AccountBuckets[i].name : i \in 1..Len(AccountBuckets)}

BucketOf(b) == CHOOSE r \in {AccountBuckets[i] : i \in 1..Len(AccountBuckets)} : r.name = b

Object(k, size, t) == [key |-> k, size |-> size, lastModified |-> t]

BulkNames ==
    << "k01", "k02", "k03", "k04", "k05", "k06", "k07", "k08", "k09", "k10",
       "k11", "k12", "k13", "k14", "k15", "k16", "k17", "k18", "k19", "k20",
       "k21", "k22", "k23", "k24", "k25", "k26", "k27", "k28", "k29", "k30" >>

\* the i-th child of big/: a one-byte object, a zero-byte object, or a
\* sub-directory holding one object
BulkObject(i) ==
    IF i % 3 = 1 THEN Object(<<"big", SLASH, BulkNames[i]>>, 1, 20 + i)
    ELSE IF i % 3 = 2 THEN Object(<<"big", SLASH, BulkNames[i]>>, 0, 20 + i)
    ELSE Object(<<"big", SLASH, BulkNames[i], SLASH, "x">>, 1, 20 + i)

Objects(b, n) ==
    IF b = Docs
    THEN << Object(<<"a.txt">>, 10, 11),
            Object(<<"sub", SLASH>>, 0, 12),
            Object(<<"sub", SLASH, "b.txt">>, 5, 13) >>
    ELSE IF b = Data
    THEN [i \in 1..n |-> BulkObject(i)]
         \o << Object(<<"both">>, 1, 14),
               Object(<<"both", SLASH, "x">>, 1, 15),
               Object(<<"pre", SLASH, "c.txt">>, 2, 16) >>
    ELSE <<>>

\* the bytes of an object: byte i of the content is i
Content(obj) == [i \in 1..obj.size |-> i]

\* a ListObjects marker (*string)
NoMarker == [set |-> FALSE, val |-> <<>>]
Marker(k) == [set |-> TRUE, val |-> k]

\* What a listing of prefix with delimiter "/" holds, in order: each key
\* under the prefix with no further "/" as an object, the others rolled up
\* into one common prefix per first path element.
RECURSIVE RollUp(_, _, _)
RollUp(objs, prefix, out) ==
    IF Len(objs) = 0 THEN out
    ELSE LET o == objs[1]
             rest == TrimPrefix(o.key, prefix)
             slashes == {i \in 1..Len(rest) : rest[i] = SLASH}
         IN IF ~HasPrefix(o.key, prefix) THEN RollUp(Tail(objs), prefix, out)
            ELSE IF slashes = {}
            THEN RollUp(Tail(objs), prefix,
                        Append(out, [cp |-> FALSE, key |-> o.key, size |-> o.size,
                                     lastModified |-> o.lastModified]))
            ELSE LET j == CHOOSE i \in slashes : \A k \in slashes : i <= k
                     c == prefix \o SubSeq(rest, 1, j)
                 IN IF Len(out) > 0 /\ out[Len(out)].cp /\ out[Len(out)].key = c
                    THEN RollUp(Tail(objs), prefix, out)
                    ELSE RollUp(Tail(objs), prefix,
                                Append(out, [cp |-> TRUE, key |-> c, size |-> 0,
                                             lastModified |-> ZeroTime]))

ListingItems(b, n, prefix) == RollUp(Objects(b, n), prefix, <<>>)

RECURSIVE SelectCP(_, _)
SelectCP(items, want) ==
    IF Len(items) = 0 THEN <<>>
    ELSE IF items[1].cp = want THEN <<items[1]>> \o SelectCP(Tail(items), want)
    ELSE SelectCP(Tail(items), want)

\* s3.Client.ListBuckets
S3ListBuckets == [err |-> Nil, Buckets |-> AccountBuckets]

\* s3.Client.HeadBucket
S3HeadBucket(b) == IF b \in BucketNames THEN Nil ELSE ResponseError(404)

\* s3.Client.ListObjects with Delimiter "/": one page.  be is the backend
\* (its data size n, its page size and how it reports truncation).  A
\* MaxKeys of 0 is the field's zero value and is not sent.
S3ListObjects(be, b, prefix, marker, maxKeys) ==
    IF b \notin BucketNames
    THEN [err |-> ResponseError(404), CommonPrefixes |-> <<>>, Contents |-> <<>>,
          IsTruncated |-> FALSE, NextMarker |-> NoMarker]
    ELSE LET items == ListingItems(b, be.n, prefix)
             at == {i \in 1..Len(items) : marker.set /\ items[i].key = marker.val}
             start == IF at = {} THEN 0 ELSE CHOOSE i \in at : TRUE
             limit == IF maxKeys > 0 THEN Min(maxKeys, be.pageSize) ELSE be.pageSize
             last == Min(start + limit, Len(items))
             page == SubSeq(items, start + 1, last)
             more == last < Len(items)
             next == IF Len(page) > 0 THEN Marker(page[Len(page)].key) ELSE marker
         IN [err |-> Nil,
             CommonPrefixes |-> SelectCP(page, TRUE),
             Contents |-> SelectCP(page, FALSE),
             IsTruncated |-> (more \/ be.mode = "alwaysTruncated"),
             NextMarker |-> IF be.mode = "noNextMarker" THEN NoMarker
                            ELSE IF more \/ be.mode = "alwaysTruncated" THEN next
                            ELSE NoMarker]

FindObject(b, n, k) ==
    {i \in 1..Len(Objects(b, n)) : Objects(b, n)[i].key = k}

\* s3.Client.HeadObject
S3HeadObject(be, b, k) ==
    IF b \notin BucketNames \/ FindObject(b, be.n, k) = {}
    THEN [err |-> ResponseError(404), ContentLength |-> 0, LastModified |-> ZeroTime]
    ELSE LET o == Objects(b, be.n)[CHOOSE i \in FindObject(b, be.n, k) : TRUE]
         IN [err |-> Nil, ContentLength |-> o.size, LastModified |-> o.lastModified]

\* s3.Client.GetObject with Range "bytes=first-last": the bytes of the
\* object inside the range.  A range that starts at or after the end is
\* answered 416; a malformed range (negative first) is answered 416 or
\* ignored (the whole object), as the store pleases (lenient).
S3GetObject(be, b, k, first, last, lenient) ==
    IF b \notin BucketNames \/ FindObject(b, be.n, k) = {}
    THEN [err |-> ResponseError(404), Body |-> <<>>]
    ELSE LET o == Objects(b, be.n)[CHOOSE i \in FindObject(b, be.n, k) : TRUE]
         IN IF first < 0 \/ last < first
            THEN IF lenient THEN [err |-> Nil, Body |-> Content(o)]
                 ELSE [err |-> RangeError, Body |-> <<>>]
            ELSE IF first >= o.size THEN [err |-> RangeError, Body |-> <<>>]
            ELSE [err |-> Nil, Body |-> SubSeq(Content(o), first + 1, Min(last + 1, o.size))]

\* ------------------------------------------------------------ S3FileSystem
VARIABLES
    s3fs,      \* the S3FileSystem instance (constructed = FALSE before NewS3FileSystem)
    backend,   \* the store's data size n, its page size and its truncation mode
    calls,     \* per caller: the Stat, ReadDir, Size or Open call in progress or returned
    rs,        \* per caller: the ReadSeeker returned by the last Open
    log,       \* per caller: the remote requests of the current operation, in order
    srv        \* the icecube command: its configuration, its progress, the request at its handler

vars == <<s3fs, backend, calls, rs, log, srv>>

Callers == {"c1"}

Unlimited == -1
\* ReadDir's loop with one more iteration
MaxPages_OneMore == 20 + 1
MaxPages == 20
MaxKeysLimit == 1000

BucketRegions == [b \in {Data, Docs} |-> BucketOf(b).region]
BucketCreationDates == [b \in BucketNames |-> BucketOf(b).creationDate]

\* the loop of NewS3FileSystem over bucketCreationDates, which starts from
\* time.Time{} and keeps a date only when it is Before the current one
RECURSIVE EarliestCreationDate(_, _)
EarliestCreationDate(dates, earliest) ==
    IF dates = {} THEN earliest
    ELSE LET t == CHOOSE x \in dates : TRUE
         IN EarliestCreationDate(dates \ {t}, IF t < earliest THEN t ELSE earliest)

NotConstructed ==
    [constructed |-> FALSE, defaultRegion |-> DefaultRegion, bucket |-> <<>>, prefix |-> <<>>,
     clients |-> {}, bucketRegions |-> <<>>, bucketCreationDates |-> <<>>,
     earliestCreationDate |-> ZeroTime, maxEntries |-> Unlimited]

NewS3FileSystem(defaultRegion, bucket, prefix, clients, bucketRegions, bucketCreationDates, maxEntries) ==
    [constructed |-> TRUE,
     defaultRegion |-> defaultRegion,
     bucket |-> bucket,
     prefix |-> prefix,
     clients |-> clients,
     bucketRegions |-> bucketRegions,
     bucketCreationDates |-> bucketCreationDates,
     earliestCreationDate |->
         EarliestCreationDate({bucketCreationDates[b] : b \in DOMAIN bucketCreationDates}, ZeroTime),
     maxEntries |-> maxEntries]

\* GetBucketRegion that ignores the map
GetBucketRegion_DefaultOnly(fs, bucket) == fs.defaultRegion

GetBucketRegion(fs, bucket) == Lookup(fs.bucketRegions, bucket, fs.defaultRegion)

\* parse panics on an empty bucket with a prefix
ParsePanics(fs) == Len(fs.bucket) = 0 /\ Len(fs.prefix) # 0

parse(fs, name) ==
    IF Len(fs.bucket) = 0
    THEN LET nameParts == Split(TrimPrefix(name, <<SLASH>>))
         IN [bucket |-> nameParts[1], key |-> Join(Tail(nameParts))]
    ELSE IF Len(fs.prefix) > 0
    THEN [bucket |-> fs.bucket, key |-> Join(<<fs.prefix, name>>)]
    ELSE [bucket |-> fs.bucket, key |-> TrimPrefix(name, <<SLASH>>)]

key(fs, name) ==
    IF Len(fs.prefix) = 0 THEN TrimPrefix(name, <<SLASH>>)
    ELSE Join(<<fs.prefix, name>>)

NewS3FileInfo(name, modTime, dir, size) ==
    [name |-> name, modTime |-> modTime, dir |-> dir, size |-> size]

S3DirectoryEntry(name, dir, modTime, size) ==
    [name |-> name, modTime |-> modTime, dir |-> dir, size |-> size]

NoFileInfo == NewS3FileInfo(<<>>, ZeroTime, FALSE, -1)

\* errors.As(err, &responseError): the first ResponseError of the chain
RECURSIVE AsResponseError(_)
AsResponseError(err) ==
    IF Len(err) = 0 THEN [found |-> FALSE, status |-> 0]
    ELSE IF err[1].t = "ResponseError" THEN [found |-> TRUE, status |-> err[1].status]
    ELSE AsResponseError(Tail(err))

\* IsNotExist without the test of the status
IsNotExist_AnyStatus(err) ==
    LET responseError == AsResponseError(err)
    IN responseError.found

IsNotExist(err) ==
    LET responseError == AsResponseError(err)
    IN responseError.found /\ responseError.status = 404

\* the bucket and the listing prefix ReadDir computes from name
ReadDirTarget(fs, name) ==
    IF Len(fs.bucket) = 0
    THEN IF Len(name) > 0
         THEN LET nameParts == Split(TrimPrefix(name, <<SLASH>>))
                  k == Join(Tail(nameParts))
              IN [bucket |-> nameParts[1],
                  prefix |-> IF Len(nameParts) > 1 /\ k # <<SLASH>>
                             THEN k \o <<SLASH>> ELSE <<>>]
         ELSE [bucket |-> <<>>, prefix |-> <<>>]
    ELSE [bucket |-> fs.bucket,
          prefix |-> IF name # <<SLASH>> \/ Len(fs.prefix) > 0
                     THEN key(fs, name) \o <<SLASH>> ELSE <<>>]

\* the name ReadDir gives the entry of a key or common prefix k of bucket
EntryName(fs, bucket, k) ==
    IF Len(fs.bucket) = 0 THEN <<SLASH>> \o Join(<<bucket, k>>)
    ELSE <<SLASH>> \o TrimPrefix(k, fs.prefix)

CommonPrefixEntry(fs, bucket, commonPrefix) ==
    S3DirectoryEntry(EntryName(fs, bucket, commonPrefix.key), TRUE,
                     Lookup(fs.bucketCreationDates, fs.bucket, ZeroTime), 0)

\* ObjectEntry with every object a file
ObjectEntry_AsFile(fs, bucket, object) ==
    S3DirectoryEntry(EntryName(fs, bucket, object.key), FALSE,
                     object.lastModified, object.size)

ObjectEntry(fs, bucket, object) ==
    S3DirectoryEntry(EntryName(fs, bucket, object.key), object.size = 0,
                     object.lastModified, object.size)

\* BucketEntry stamped with the zero time instead of the creation date
BucketEntry_ZeroTime(b) == S3DirectoryEntry(b.name, TRUE, ZeroTime, 0)

BucketEntry(b) == S3DirectoryEntry(b.name, TRUE, b.creationDate, 0)

\* for _, x := range new { append; if len(directoryEntries) == max { break } }
RECURSIVE AppendUntil(_, _, _)
AppendUntil(directoryEntries, new, max) ==
    IF Len(new) = 0 THEN directoryEntries
    ELSE LET appended == Append(directoryEntries, new[1])
         IN IF Len(appended) = max THEN appended
            ELSE AppendUntil(appended, Tail(new), max)

\* ReadDirPage whose unlimited branch keeps the entries of the last page only
ReadDirPage_LastPageOnly(fs, bucket, directoryEntries, out) ==
    LET cps == [j \in 1..Len(out.CommonPrefixes) |->
                   S3DirectoryEntry(EntryName(fs, bucket, out.CommonPrefixes[j].key), TRUE,
                                    Lookup(fs.bucketCreationDates, fs.bucket, ZeroTime), 0)]
        objs == [j \in 1..Len(out.Contents) |->
                    S3DirectoryEntry(EntryName(fs, bucket, out.Contents[j].key),
                                     out.Contents[j].size = 0,
                                     out.Contents[j].lastModified, out.Contents[j].size)]
    IN IF fs.maxEntries # Unlimited
       THEN LET e1 == AppendUntil(directoryEntries, cps, fs.maxEntries)
                e2 == AppendUntil(e1, objs, fs.maxEntries)
            IN IF Len(e1) = fs.maxEntries THEN [entries |-> e1, break |-> TRUE]
               ELSE IF Len(e2) = fs.maxEntries THEN [entries |-> e2, break |-> TRUE]
               ELSE [entries |-> e2, break |-> ~out.IsTruncated]
       ELSE [entries |-> cps \o objs, break |-> ~out.IsTruncated]

\* ReadDirPage that takes the branch without a limit under every maxEntries
ReadDirPage_NoLimit(fs, bucket, directoryEntries, out) ==
    [entries |-> directoryEntries
                 \o [j \in 1..Len(out.CommonPrefixes) |->
                        CommonPrefixEntry(fs, bucket, out.CommonPrefixes[j])]
                 \o [j \in 1..Len(out.Contents) |-> ObjectEntry(fs, bucket, out.Contents[j])],
     break |-> ~out.IsTruncated]

\* the body of one iteration of ReadDir's loop on a page that was listed
\* without error: the entries after it and whether the loop breaks
ReadDirPage(fs, bucket, directoryEntries, out) ==
    LET cps == [j \in 1..Len(out.CommonPrefixes) |->
                   CommonPrefixEntry(fs, bucket, out.CommonPrefixes[j])]
        objs == [j \in 1..Len(out.Contents) |-> ObjectEntry(fs, bucket, out.Contents[j])]
    IN IF fs.maxEntries # Unlimited
       THEN LET e1 == AppendUntil(directoryEntries, cps, fs.maxEntries)
                e2 == AppendUntil(e1, objs, fs.maxEntries)
            IN IF Len(e1) = fs.maxEntries THEN [entries |-> e1, break |-> TRUE]
               ELSE IF Len(e2) = fs.maxEntries THEN [entries |-> e2, break |-> TRUE]
               ELSE [entries |-> e2, break |-> ~out.IsTruncated]
       ELSE [entries |-> directoryEntries \o cps \o objs, break |-> ~out.IsTruncated]

\* listObjectsInput.MaxKeys: set only under a limit below 1000
MaxKeys(fs) ==
    IF fs.maxEntries # Unlimited /\ fs.maxEntries < MaxKeysLimit THEN fs.maxEntries ELSE 0

\* -------------------------------------------------------------- the server
\* server.CheckPath
CheckPath(p) == p = Clean(p) /\ ~HasPrefix(p, <<"..", SLASH>>)

\* no call of CheckPath
NoCheck == [p |-> <<>>, pc |-> "none", ok |-> FALSE]

\* a flag that holds JSON: not given (the empty string), given and not
\* parseable, or given with the value it parses to
NoFlag == [given |-> FALSE, valid |-> TRUE, value |-> {}]
BadFlag == [given |-> TRUE, valid |-> FALSE, value |-> {}]
JSONFlag(value) == [given |-> TRUE, valid |-> TRUE, value |-> value]

\* the flags of the serve command that decide how far it gets: the listen
\* address, whether a redirect address and public location are given,
\* --server-key-pairs, the default certificate and key (given and loadable,
\* or given and not loadable), the log path ("-" is stdout), --unsafe, the
\* key log path, the cipher suites, whether a directory template is given,
\* and --dry-run; the flags the handler reads (--root, --file-systems,
\* --sites, --behavior-not-found, --directory-index,
\* --directory-trailing-slash) at one accepted value each
Configs ==
    [addr : {"", ":8080"}, redirect : BOOLEAN, keyPairs : {"", "[]", "[pair]"},
     defaultCert : {"", "loadable", "unloadable"}, logPath : {"-", "file"},
     unsafe : BOOLEAN, keyLogPath : {"", "-"}, cipherSuites : {"", "unknown"},
     template : BOOLEAN, dryRun : BOOLEAN,
     rootPath : {"/srv"}, fileSystems : {NoFlag}, sites : {NoFlag},
     notFound : {"none"}, directoryIndex : {<<>>}, trailingSlash : {FALSE}]

NoConfig ==
    [addr |-> "", redirect |-> FALSE, keyPairs |-> "", defaultCert |-> "", logPath |-> "-",
     unsafe |-> FALSE, keyLogPath |-> "", cipherSuites |-> "", template |-> FALSE,
     dryRun |-> FALSE,
     rootPath |-> "", fileSystems |-> NoFlag, sites |-> NoFlag,
     notFound |-> "none", directoryIndex |-> <<>>, trailingSlash |-> FALSE]

\* no request in the handler
NoRequest ==
    [pc |-> "none", tlsServerName |-> "", trimmedPath |-> <<>>, stat |-> Nil,
     status |-> 0, ops |-> <<>>]

\* the command before it is run: output is what it wrote to stdout and
\* stderr, https and redirect whether the listeners were started
NotStarted ==
    [pc |-> "none", config |-> NoConfig, accepted |-> FALSE, result |-> "none",
     output |-> <<>>, https |-> FALSE, redirect |-> FALSE, check |-> NoCheck,
     req |-> NoRequest]

\* checkConfig: the error it returns, "" for none
checkConfig(v) ==
    IF v.addr = "" THEN "listen address is missing"
    ELSE IF v.keyPairs = "" /\ v.defaultCert = "" THEN "default server cert is missing"
    ELSE IF v.fileSystems.given /\ ~v.fileSystems.valid THEN "invalid format for file systems"
    ELSE IF ~v.fileSystems.given /\ v.rootPath = "" THEN "root path is missing"
    ELSE IF v.sites.given /\ ~v.sites.valid THEN "invalid format for sites"
    ELSE ""

\* logger.Log: a line on stdout when the log path is "-", else in the file
Logged(v, output, line) == IF v.logPath = "-" THEN Append(output, line) ELSE output

\* main's report of the error RunE returned, on stderr
Failed(srvr, output, err) ==
    [srvr EXCEPT !.pc = "exited", !.result = "error",
                 !.output = output \o <<"icecube: " \o err, "Try icecube --help for more information.">>]

\* serve is run: its configuration is checked
RunServe ==
    /\ srv.pc = "start"
    /\ srv' = IF checkConfig(srv.config) # ""
              THEN Failed(srv, srv.output, checkConfig(srv.config))
              ELSE [srv EXCEPT !.pc = "checked", !.accepted = TRUE]
    /\ UNCHANGED <<s3fs, backend, calls, rs, log>>

\* RunE from initLogger to the construction of the https server
Configure ==
    /\ srv.pc = "checked"
    /\ LET v == srv.config
           o1 == IF v.unsafe THEN Logged(v, srv.output, "Unsafe configuration allowed")
                 ELSE srv.output
           keyLogger == ~(v.keyLogPath = "" \/ ~v.unsafe)
           o2 == IF v.template THEN Logged(v, o1, "Using directory template") ELSE o1
       IN srv' =
              IF keyLogger /\ v.keyLogPath = "-"
              THEN Failed(srv, o1, "error initializing key logger")
              ELSE IF v.defaultCert = "unloadable"
              THEN Failed(srv, o1, "error loading default server key pair")
              ELSE IF v.defaultCert = "" /\ v.keyPairs # "[pair]"
              THEN [srv EXCEPT !.pc = "exited", !.result = "panic",
                               !.output = Append(o1, "panic: runtime error: index out of range")]
              ELSE IF v.cipherSuites = "unknown"
              THEN Failed(srv, o1, "error initializing cipher suites")
              ELSE [srv EXCEPT !.pc = "configured", !.output = o2]
    /\ UNCHANGED <<s3fs, backend, calls, rs, log>>

\* --dry-run: return before starting servers
DryRun ==
    /\ srv.pc = "configured"
    /\ srv.config.dryRun
    /\ srv' = [srv EXCEPT !.pc = "exited", !.result = "success"]
    /\ UNCHANGED <<s3fs, backend, calls, rs, log>>

\* the redirect listener is started
StartRedirect ==
    /\ srv.pc = "configured"
    /\ ~srv.config.dryRun
    /\ srv.config.redirect
    /\ ~srv.redirect
    /\ srv' = [srv EXCEPT !.redirect = TRUE,
                          !.output = Logged(srv.config, srv.output, "Redirecting http to https")]
    /\ UNCHANGED <<s3fs, backend, calls, rs, log>>

\* the https listener is started
StartServer ==
    /\ srv.pc = "configured"
    /\ ~srv.config.dryRun
    /\ srv.config.redirect => srv.redirect
    /\ srv' = [srv EXCEPT !.pc = "serving", !.https = TRUE,
                          !.output = Logged(srv.config, srv.output, "Starting server")]
    /\ UNCHANGED <<s3fs, backend, calls, rs, log>>

\* the paths CheckPath is called with: "/" and the names ".", ".." and "a",
\* two names never side by side
PathTokens == {SLASH, ".", "..", "a"}

PathInputs ==
    {p \in UNION {[1..n -> PathTokens] : n \in 0..MaxPathLen} :
        \A i \in 1..(Len(p) - 1) : p[i] = SLASH \/ p[i + 1] = SLASH}

\* CheckPath(p) is called and returns
CheckPathReturn ==
    /\ srv.check.pc = "call"
    /\ srv' = [srv EXCEPT !.check.pc = "return", !.check.ok = CheckPath(srv.check.p)]
    /\ UNCHANGED <<s3fs, backend, calls, rs, log>>

\* ------------------------------------------------------------ the handler
\* initFileSystems: the keys of the map it builds, the root path when one
\* is given and every path of --file-systems
initFileSystems(v) ==
    (IF v.rootPath # "" THEN {v.rootPath} ELSE {}) \cup v.fileSystems.value

\* initSites: the pairs <<server name, file system path>> of --sites
initSites(v) == v.sites.value

\* the configurations the handler is run under: a valid listener and
\* certificate, and every combination of the flags the handler reads
ServerNames == {"", "a.example", "x.example"}

SiteConfigs ==
    [addr : {":8080"}, redirect : {FALSE}, keyPairs : {""},
     defaultCert : {"loadable"}, logPath : {"file"},
     unsafe : {FALSE}, keyLogPath : {""}, cipherSuites : {""},
     template : BOOLEAN, dryRun : {FALSE},
     rootPath : {"", "/srv"},
     fileSystems : {NoFlag, BadFlag, JSONFlag({}), JSONFlag({"/a"})},
     sites : {NoFlag, BadFlag, JSONFlag({<<"a.example", "/a">>}),
              JSONFlag({<<"a.example", "/b">>})},
     notFound : {"none", "redirect"},
     directoryIndex : {<<>>, <<"index.html">>, <<SLASH, "..", SLASH, "index.html">>},
     trailingSlash : BOOLEAN]

\* what server.TrimTrailingForwardSlash(server.CleanPath(r.URL.Path)) hands
\* the handler
RequestPaths ==
    { <<SLASH>>, <<SLASH, "a">>, <<SLASH, "a", SLASH>>, <<SLASH, "..", SLASH, "a">> }

\* what a Stat or ReadDir of the file system answers: a file, a directory
\* or an error
Answers ==
    { [err |-> Nil, dir |-> FALSE], [err |-> Nil, dir |-> TRUE],
      [err |-> ResponseError(404), dir |-> FALSE],
      [err |-> Errorf(ResponseError(403)), dir |-> FALSE],
      [err |-> NetworkError, dir |-> FALSE] }

Called(op, p) == [op |-> op, path |-> p]

Response(status, ops) == [pc |-> "done", status |-> status, ops |-> ops]

\* the failure of Stat answered 500 whatever the error
StatFailed_Always500(v, err) == 500

\* the handler's answer to a failed Stat of the requested path
StatFailed(v, err) ==
    IF IsNotExist(err)
    THEN IF v.notFound = "redirect" THEN 303 ELSE 404
    ELSE 500

\* the directory index looked up unchecked
IndexPath(v, trimmedPath) ==
    IF HasPrefix(v.directoryIndex, <<SLASH>>) THEN v.directoryIndex
    ELSE Join(<<trimmedPath, v.directoryIndex>>)

\* the handler of the https server, from the site lookup to the response:
\* the status it answers (0 when the response is ServeFile's), and the
\* calls it made on the file system, with their paths.  slashed says
\* whether the cleaned path ends in "/", first is the answer to Stat of
\* the path, second the answer to the ReadDir or to the Stat of the
\* index, executes whether the directory template renders.
Handler(v, tlsServerName, trimmedPath, slashed, first, second, executes) ==
    LET sites == initSites(v)
        known == {pair \in sites : pair[1] = tlsServerName}
        fileSystemPath == IF sites # {} THEN (CHOOSE pair \in known : TRUE)[2] ELSE v.rootPath
        indexPath == IndexPath(v, trimmedPath)
        stat == <<Called("Stat", trimmedPath)>>
    IN IF sites # {} /\ known = {} THEN Response(400, <<>>)
       ELSE IF ~CheckPath(trimmedPath) THEN Response(400, <<>>)
       ELSE IF fileSystemPath \notin initFileSystems(v)
       THEN [pc |-> "panic", status |-> 0, ops |-> stat]
       ELSE IF first.err # Nil THEN Response(StatFailed(v, first.err), stat)
       ELSE IF ~first.dir
       THEN Response(0, stat \o <<Called("ServeFile", trimmedPath)>>)
       ELSE IF v.trailingSlash /\ ~slashed THEN Response(303, stat)
       ELSE IF Len(v.directoryIndex) = 0
       THEN IF ~v.template THEN Response(404, stat)
            ELSE LET ops == stat \o <<Called("ReadDir", trimmedPath)>>
                 IN IF second.err # Nil
                    THEN IF IsNotExist(second.err) /\ trimmedPath = <<SLASH>>
                         THEN Response(404, ops) ELSE Response(500, ops)
                    ELSE IF ~executes THEN Response(500, ops)
                    ELSE Response(200, ops)
       ELSE LET ops == stat \o <<Called("Stat", indexPath)>>
            IN IF second.err # Nil /\ ~IsNotExist(second.err) THEN Response(500, ops)
               ELSE IF IsNotExist(second.err) \/ second.dir THEN Response(404, ops)
               ELSE Response(0, ops \o <<Called("ServeFile", indexPath)>>)

\* a request arrives at the serving https server and is answered
Handle(tlsServerName, trimmedPath, slashed, first, second, executes) ==
    /\ srv.pc = "serving"
    /\ srv.req.pc = "none"
    /\ LET res == Handler(srv.config, tlsServerName, trimmedPath, slashed, first, second,
                          executes)
       IN srv' = [srv EXCEPT !.req =
                     [pc |-> res.pc, tlsServerName |-> tlsServerName,
                      trimmedPath |-> trimmedPath, stat |-> first.err,
                      status |-> res.status, ops |-> res.ops]]
    /\ UNCHANGED <<s3fs, backend, calls, rs, log>>

\* the server is ready for the next request
NextRequest ==
    /\ srv.pc = "serving"
    /\ srv.req.pc # "none"
    /\ srv' = [srv EXCEPT !.req = NoRequest]
    /\ UNCHANGED <<s3fs, backend, calls, rs, log>>

\* ------------------------------------------------------------- the calls
\* what a remote call can fail with whatever the store holds: nothing,
\* forbidden, a server error, or no answer at all
Faults == {Nil, ResponseError(403), ResponseError(500), NetworkError}

Paths ==
    { <<SLASH>>,
      <<SLASH, "a.txt">>, <<SLASH, "sub">>, <<SLASH, "big">>, <<SLASH, "both">>,
      <<SLASH, "c.txt">>, <<SLASH, "missing">>, <<SLASH, "big", SLASH, "k02">>,
      <<SLASH, "docs">>, <<SLASH, "docs", SLASH, "a.txt">>, <<SLASH, "docs", SLASH, "sub">>,
      <<SLASH, "data", SLASH, "big">>, <<SLASH, "nope">>, <<SLASH, "nope", SLASH, "x">> }

ConfigBuckets == {<<>>, Docs, Data}
ConfigPrefixes == {<<>>, <<"pre">>}
BulkSizes == {3, MaxItems - 1, MaxItems}
Modes == {"honest", "alwaysTruncated", "noNextMarker"}

\* what the caller keeps of its previous call: what a successful Stat of
\* name reported
NoPrior == [valid |-> FALSE, name |-> <<>>, size |-> 0, dir |-> FALSE]

IdleCall ==
    [op |-> "none", pc |-> "idle", name |-> <<>>,
     bucket |-> <<>>, prefix |-> <<>>, i |-> 0, marker |-> NoMarker, directoryEntries |-> <<>>,
     entries |-> <<>>, fi |-> NoFileInfo, size |-> 0, err |-> Nil,
     asked |-> FALSE, notExist |-> FALSE, prior |-> NoPrior, ctx |-> NewContext]

NoRun == [on |-> FALSE, fresh |-> FALSE, bytes |-> <<>>, eof |-> FALSE]

ClosedReader ==
    [open |-> FALSE, offset |-> 0, size |-> 0, bucket |-> <<>>, key |-> <<>>,
     lastOp |-> "none", n |-> 0, err |-> Nil,
     run |-> NoRun]

\* NewReadSeeker with offset and size taken for each other
NewReadSeeker_Swapped(offset, size, bucket, k) ==
    [ClosedReader EXCEPT !.open = TRUE, !.offset = size, !.size = offset,
                         !.bucket = bucket, !.key = k,
                         !.run = [on |-> TRUE, fresh |-> TRUE, bytes |-> <<>>, eof |-> FALSE]]

\* NewReadSeeker(offset, size, read), read being Open's closure over bucket and key
NewReadSeeker(offset, size, bucket, k) ==
    [ClosedReader EXCEPT !.open = TRUE, !.offset = offset, !.size = size,
                         !.bucket = bucket, !.key = k,
                         !.run = [on |-> TRUE, fresh |-> TRUE, bytes |-> <<>>, eof |-> FALSE]]

\* a remote request as the log keeps it: the operation, the client (region)
\* it went through, its input, and the error it was answered with
Request(op, region, bucket, k, marker, maxKeys, first, last, err, ctx) ==
    [op |-> op, region |-> region, bucket |-> bucket, key |-> k, marker |-> marker,
     maxKeys |-> maxKeys, first |-> first, last |-> last, err |-> err, ctx |-> ctx]

\* a client call made with the background context instead
RequestContext_Background(cs) == [name |-> "background", cancelled |-> FALSE]

\* the context a call hands to its client calls: the ctx it was given
RequestContext(cs) == cs.ctx

\* what a client call made with context ctx fails with: the cancellation
\* when ctx is cancelled, else the fault of the store or the network
Outcome(ctx, fault) == IF ctx.cancelled THEN Canceled ELSE fault

Returned(c) == calls[c].pc \in {"done", "panic"}

CanCall(c) == s3fs.constructed /\ calls[c].pc = "idle"

Done(cs) == [cs EXCEPT !.pc = "done"]

\* ReadDir(name) up to its first remote call
EnterReadDir(cs, name) ==
    LET target == ReadDirTarget(s3fs, name)
    IN [cs EXCEPT !.bucket = target.bucket, !.prefix = target.prefix,
                  !.directoryEntries = <<>>, !.marker = NoMarker, !.i = 0,
                  !.pc = IF Len(target.bucket) = 0 THEN "ListBuckets" ELSE "ListObjects"]

\* ReturnReadDir handing out the entries of the earlier pages with the error
ReturnReadDir_Partial(cs, directoryEntries, err) ==
    IF cs.op = "ReadDir"
    THEN Done([cs EXCEPT !.entries = IF err # Nil THEN cs.directoryEntries ELSE directoryEntries,
                         !.err = err])
    ELSE IF cs.op = "fs.Stat"
    THEN IF Len(directoryEntries) > 0
         THEN Done([cs EXCEPT !.fi = NewS3FileInfo(cs.name,
                                         Lookup(s3fs.bucketCreationDates, s3fs.bucket, ZeroTime),
                                         TRUE, 0)])
         ELSE [cs EXCEPT !.pc = "HeadObject"]
    ELSE IF err # Nil THEN Done([cs EXCEPT !.err = Errorf(err)])
    ELSE IF Len(directoryEntries) > 0
    THEN Done([cs EXCEPT !.fi =
             NewS3FileInfo(cs.name,
                 Lookup(s3fs.bucketCreationDates,
                        IF Len(s3fs.bucket) = 0
                        THEN Split(TrimPrefix(cs.name, <<SLASH>>))[1] ELSE s3fs.bucket,
                        ZeroTime),
                 TRUE, 0)])
    ELSE [cs EXCEPT !.pc = "HeadObject"]

\* ReadDir returns (directoryEntries, err): to its caller, or into Stat,
\* which wraps the error, answers a directory when there are entries and
\* goes on to HeadObject when there are none; or into the Stat of pkg/fs,
\* which looks at the entries only
ReturnReadDir(cs, directoryEntries, err) ==
    IF cs.op = "ReadDir"
    THEN Done([cs EXCEPT !.entries = directoryEntries, !.err = err])
    ELSE IF cs.op = "fs.Stat"
    THEN IF Len(directoryEntries) > 0
         THEN Done([cs EXCEPT !.fi = NewS3FileInfo(cs.name,
                                         Lookup(s3fs.bucketCreationDates, s3fs.bucket, ZeroTime),
                                         TRUE, 0)])
         ELSE [cs EXCEPT !.pc = "HeadObject"]
    ELSE IF err # Nil THEN Done([cs EXCEPT !.err = Errorf(err)])
    ELSE IF Len(directoryEntries) > 0
    THEN Done([cs EXCEPT !.fi =
             NewS3FileInfo(cs.name,
                 Lookup(s3fs.bucketCreationDates,
                        IF Len(s3fs.bucket) = 0
                        THEN Split(TrimPrefix(cs.name, <<SLASH>>))[1] ELSE s3fs.bucket,
                        ZeroTime),
                 TRUE, 0)])
    ELSE [cs EXCEPT !.pc = "HeadObject"]

Startup ==
    /\ ~s3fs.constructed
    /\ \E bucket \in ConfigBuckets, prefix \in ConfigPrefixes, maxEntries \in Unlimited..MaxMaxEntries :
           s3fs' = NewS3FileSystem(DefaultRegion, bucket, prefix, Regions, BucketRegions,
                                   BucketCreationDates, maxEntries)
    /\ UNCHANGED <<backend, calls, rs, log, srv>>

StartCall(c, op, name) ==
    [IdleCall EXCEPT !.op = op, !.name = name,
                     !.prior = IF calls[c].prior.valid /\ calls[c].prior.name = name
                                  /\ op \in {"Open", "Size"}
                               THEN calls[c].prior ELSE NoPrior]

\* the caller takes what the call returned (and drops the stream of an
\* Open) and is free to make its next call
Return(c) ==
    /\ Returned(c)
    /\ calls' = [calls EXCEPT ![c] =
           [IdleCall EXCEPT !.prior =
               IF calls[c].op = "Stat" /\ calls[c].pc = "done" /\ calls[c].err = Nil
               THEN [valid |-> TRUE, name |-> calls[c].name, size |-> calls[c].fi.size,
                     dir |-> calls[c].fi.dir]
               ELSE NoPrior]]
    /\ rs' = [rs EXCEPT ![c] = ClosedReader]
    /\ log' = [log EXCEPT ![c] = <<>>]
    /\ UNCHANGED <<s3fs, backend, srv>>

ReadDir(c, name) ==
    /\ CanCall(c)
    /\ calls' = [calls EXCEPT ![c] = EnterReadDir(StartCall(c, "ReadDir", name), name)]
    /\ UNCHANGED <<s3fs, backend, rs, log, srv>>

Stat(c, name) ==
    /\ CanCall(c)
    /\ LET cs == StartCall(c, "Stat", name)
           nameParts == Split(TrimPrefix(name, <<SLASH>>))
       IN calls' = [calls EXCEPT ![c] =
              IF Len(s3fs.bucket) = 0
              THEN IF Len(s3fs.prefix) # 0 THEN Done([cs EXCEPT !.err = ConfigError])
                   ELSE IF name = <<SLASH>>
                   THEN Done([cs EXCEPT !.fi =
                            NewS3FileInfo(name, s3fs.earliestCreationDate, TRUE, 0)])
                   ELSE IF Len(nameParts) = 1
                   THEN [cs EXCEPT !.bucket = nameParts[1], !.pc = "HeadBucket"]
                   ELSE EnterReadDir(cs, name)
              ELSE IF name = <<SLASH>> /\ Len(s3fs.prefix) = 0
              THEN [cs EXCEPT !.bucket = s3fs.bucket, !.pc = "HeadBucket"]
              ELSE EnterReadDir(cs, name)]
    /\ UNCHANGED <<s3fs, backend, rs, log, srv>>

\* Stat of the S3FileSystem of pkg/fs, the file system of one bucket that
\* the serve command builds: the instance stands for it with its bucket,
\* its prefix, its maxEntries and the creation date of its bucket
StatFS(c, name) ==
    /\ CanCall(c)
    /\ Len(s3fs.bucket) > 0
    /\ LET cs == StartCall(c, "fs.Stat", name)
       IN calls' = [calls EXCEPT ![c] =
              IF name = <<SLASH>>
              THEN [cs EXCEPT !.bucket = s3fs.bucket, !.pc = "HeadBucket"]
              ELSE [cs EXCEPT !.bucket = s3fs.bucket, !.prefix = key(s3fs, name) \o <<SLASH>>,
                              !.directoryEntries = <<>>, !.marker = NoMarker, !.i = 0,
                              !.pc = "ListObjects"]]
    /\ UNCHANGED <<s3fs, backend, rs, log, srv>>

Size(c, name) ==
    /\ CanCall(c)
    /\ LET cs == StartCall(c, "Size", name)
       IN calls' = [calls EXCEPT ![c] =
              IF ParsePanics(s3fs) THEN [cs EXCEPT !.pc = "panic"]
              ELSE [cs EXCEPT !.pc = "HeadObject"]]
    /\ UNCHANGED <<s3fs, backend, rs, log, srv>>

Open(c, name) ==
    /\ CanCall(c)
    /\ LET cs == StartCall(c, "Open", name)
       IN calls' = [calls EXCEPT ![c] =
              IF ParsePanics(s3fs) THEN [cs EXCEPT !.pc = "panic"]
              ELSE [cs EXCEPT !.pc = "HeadObject"]]
    /\ UNCHANGED <<s3fs, backend, rs, log, srv>>

\* ReadDir at root with no bucket: the account's buckets
ListBuckets(c, fault) ==
    /\ calls[c].pc = "ListBuckets"
    /\ LET cs == calls[c]
           ctx == RequestContext(cs)
           failure == Outcome(ctx, fault)
           out == IF failure # Nil THEN [err |-> failure, Buckets |-> <<>>] ELSE S3ListBuckets
           new == [j \in 1..Len(out.Buckets) |-> BucketEntry(out.Buckets[j])]
       IN /\ log' = [log EXCEPT ![c] = Append(@,
                 Request("ListBuckets", s3fs.defaultRegion, <<>>, <<>>, NoMarker, 0, 0, 0,
                         out.err, ctx))]
          /\ calls' = [calls EXCEPT ![c] =
                 IF out.err # Nil THEN ReturnReadDir(cs, <<>>, Errorf(out.err))
                 ELSE ReturnReadDir(cs, AppendUntil(cs.directoryEntries, new, s3fs.maxEntries), Nil)]
    /\ UNCHANGED <<s3fs, backend, rs, srv>>

\* the marker kept in a place all calls share: the one an unfinished
\* listing of any caller last set
PageMarker_Shared(c) ==
    IF \E d \in DOMAIN calls : calls[d].pc = "ListObjects" /\ calls[d].marker.set
    THEN calls[CHOOSE d \in DOMAIN calls :
                   calls[d].pc = "ListObjects" /\ calls[d].marker.set].marker
    ELSE calls[c].marker

\* ReadDir's marker: a local variable of the call
PageMarker(c) == calls[c].marker

\* one iteration of ReadDir's loop: one ListObjects request and its page
ListObjects(c, fault) ==
    /\ calls[c].pc = "ListObjects"
    /\ calls[c].i < MaxPages
    /\ LET cs == calls[c]
           ctx == RequestContext(cs)
           failure == Outcome(ctx, fault)
           listed == S3ListObjects(backend, cs.bucket, cs.prefix, PageMarker(c), MaxKeys(s3fs))
           out == IF failure # Nil THEN [listed EXCEPT !.err = failure] ELSE listed
           page == ReadDirPage(s3fs, cs.bucket, cs.directoryEntries, out)
       IN /\ log' = [log EXCEPT ![c] = Append(@,
                 Request("ListObjects", GetBucketRegion(s3fs, cs.bucket), cs.bucket, cs.prefix,
                         PageMarker(c), MaxKeys(s3fs), 0, 0, out.err, ctx))]
          /\ calls' = [calls EXCEPT ![c] =
                 IF out.err # Nil THEN ReturnReadDir(cs, <<>>, out.err)
                 ELSE IF page.break \/ cs.i + 1 >= MaxPages
                 THEN ReturnReadDir(cs, page.entries, Nil)
                 ELSE [cs EXCEPT !.directoryEntries = page.entries,
                                 !.marker = out.NextMarker, !.i = cs.i + 1]]
    /\ UNCHANGED <<s3fs, backend, rs, srv>>

\* Stat's existence probe of a bucket
HeadBucket(c, fault) ==
    /\ calls[c].pc = "HeadBucket"
    /\ LET cs == calls[c]
           ctx == RequestContext(cs)
           failure == Outcome(ctx, fault)
           err == IF failure # Nil THEN failure ELSE S3HeadBucket(cs.bucket)
       IN /\ log' = [log EXCEPT ![c] = Append(@,
                 Request("HeadBucket", GetBucketRegion(s3fs, cs.bucket), cs.bucket, <<>>,
                         NoMarker, 0, 0, 0, err, ctx))]
          /\ calls' = [calls EXCEPT ![c] =
                 IF err # Nil THEN Done([cs EXCEPT !.err = err])
                 ELSE Done([cs EXCEPT !.fi =
                          NewS3FileInfo(cs.name,
                              Lookup(s3fs.bucketCreationDates, cs.bucket, ZeroTime), TRUE, 0)])]
    /\ UNCHANGED <<s3fs, backend, rs, srv>>

\* the metadata fetch: S3FileSystem.HeadObject for Stat, the HeadObject
\* request of Size, and of the Size call that Open starts with
HeadObject(c, fault) ==
    /\ calls[c].pc = "HeadObject"
    /\ LET cs == calls[c]
           at == parse(s3fs, cs.name)
           ctx == RequestContext(cs)
           failure == Outcome(ctx, fault)
           head == S3HeadObject(backend, at.bucket, at.key)
           out == IF failure # Nil THEN [head EXCEPT !.err = failure] ELSE head
       IN /\ log' = [log EXCEPT ![c] = Append(@,
                 Request("HeadObject", GetBucketRegion(s3fs, at.bucket), at.bucket, at.key,
                         NoMarker, 0, 0, 0, out.err, ctx))]
          /\ calls' = [calls EXCEPT ![c] =
                 IF out.err # Nil THEN Done([cs EXCEPT !.err = out.err])
                 ELSE IF cs.op \in {"Stat", "fs.Stat"}
                 THEN Done([cs EXCEPT !.fi =
                          NewS3FileInfo(cs.name, out.LastModified, out.ContentLength = 0,
                                        out.ContentLength)])
                 ELSE Done([cs EXCEPT !.size = out.ContentLength])]
          /\ rs' = [rs EXCEPT ![c] =
                 IF out.err = Nil /\ cs.op = "Open"
                 THEN NewReadSeeker(0, out.ContentLength, at.bucket, at.key)
                 ELSE @]
    /\ UNCHANGED <<s3fs, backend, srv>>

\* the caller cancels the context it gave to its call: while the call is
\* at a remote call, or while the stream of its Open is in use
Cancel(c) ==
    /\ calls[c].pc \in {"ListBuckets", "ListObjects", "HeadBucket", "HeadObject"} \/ rs[c].open
    /\ ~calls[c].ctx.cancelled
    /\ calls' = [calls EXCEPT ![c].ctx.cancelled = TRUE]
    /\ UNCHANGED <<s3fs, backend, rs, log, srv>>

\* the handler's classification of the error a call returned
Classify(c) ==
    /\ calls[c].pc = "done"
    /\ ~calls[c].asked
    /\ calls' = [calls EXCEPT ![c].asked = TRUE, ![c].notExist = IsNotExist(calls[c].err)]
    /\ UNCHANGED <<s3fs, backend, rs, log, srv>>

\* -------------------------------------------------------------- ReadSeeker
Whences == {"SeekStart", "SeekCurrent", "SeekEnd", "other"}

\* copy(p, body)
Copy(p, body) == [j \in 1..Len(p) |-> IF j <= Len(body) THEN body[j] ELSE p[j]]

\* the closure Open hands to NewReadSeeker: one GetObject for the range
\* bytes=offset-(offset+len(p)-1), the body copied into p
RangeRead(r, offset, p, fault, lenient) ==
    LET got == S3GetObject(backend, r.bucket, r.key, offset, offset + Len(p) - 1, lenient)
        out == IF fault # Nil THEN [got EXCEPT !.err = fault] ELSE got
    IN IF out.err # Nil THEN [n |-> 0, err |-> out.err, p |-> p]
       ELSE [n |-> Len(p), err |-> Nil, p |-> Copy(p, out.Body)]

\* the offset left where it was
Advance_Never(offset, n) == offset

\* Read's update of the offset by the n its fetch returned
Advance(offset, n) == IF n > 0 THEN offset + n ELSE offset

\* the test with > for >=
AtEOF_Strict(r) == r.offset > r.size

\* Read's test for the end of the stream
AtEOF(r) == r.offset >= r.size

\* Read(p) with a zeroed buffer p of length len; the fetch is Open's
\* closure, which makes its request with the context Open was given
Read(c, len, fault, lenient) ==
    /\ rs[c].open
    /\ LET r == rs[c]
           p == [j \in 1..len |-> 0]
           ctx == RequestContext(calls[c])
           res == RangeRead(r, r.offset, p, Outcome(ctx, fault), lenient)
       IN IF AtEOF(r)
          THEN /\ rs' = [rs EXCEPT ![c] =
                        [r EXCEPT !.lastOp = "Read", !.n = 0, !.err = EOF,
                                  !.run = IF r.run.on THEN [r.run EXCEPT !.eof = TRUE] ELSE r.run]]
               /\ log' = [log EXCEPT ![c] = <<>>]
          ELSE /\ rs' = [rs EXCEPT ![c] =
                        [r EXCEPT !.lastOp = "Read",
                                  !.n = res.n, !.err = res.err,
                                  !.offset = Advance(r.offset, res.n),
                                  !.run = IF ~r.run.on THEN r.run
                                          ELSE IF res.err # Nil THEN NoRun
                                          ELSE [r.run EXCEPT !.bytes = @ \o SubSeq(res.p, 1, res.n)]]]
               /\ log' = [log EXCEPT ![c] =
                        <<Request("GetObject", GetBucketRegion(s3fs, r.bucket), r.bucket, r.key,
                                  NoMarker, 0, r.offset, r.offset + len - 1, res.err, ctx)>>]
    /\ UNCHANGED <<s3fs, backend, calls, srv>>

\* the offset kept within 0..size
SeekOffset_Clamped(r, offset, whence) ==
    LET new == IF whence = "SeekStart" THEN offset
               ELSE IF whence = "SeekCurrent" THEN r.offset + offset
               ELSE IF whence = "SeekEnd" THEN r.size + offset
               ELSE r.offset
    IN IF new < 0 THEN 0 ELSE Min(new, r.size)

\* the offset Seek's switch on whence assigns
SeekOffset(r, offset, whence) ==
    IF whence = "SeekStart" THEN offset
    ELSE IF whence = "SeekCurrent" THEN r.offset + offset
    ELSE IF whence = "SeekEnd" THEN r.size + offset
    ELSE r.offset

Seek(c, offset, whence) ==
    /\ rs[c].open
    /\ LET r == rs[c]
           new == SeekOffset(r, offset, whence)
           rewind == whence = "SeekStart" /\ offset = 0
       IN /\ new \in (0 - MaxSeek)..(r.size + MaxSeek)
          /\ rs' = [rs EXCEPT ![c] =
                   [r EXCEPT !.lastOp = "Seek", !.offset = new,
                             !.n = IF whence = "other" THEN 0 ELSE new,
                             !.err = IF whence = "other" THEN ErrUnexpectedEOF ELSE Nil,
                             !.run = IF rewind
                                     THEN [on |-> TRUE, fresh |-> FALSE, bytes |-> <<>>, eof |-> FALSE]
                                     ELSE NoRun]]
          /\ log' = [log EXCEPT ![c] = <<>>]
    /\ UNCHANGED <<s3fs, backend, calls, srv>>

\* ------------------------------------------------------------ specification
\* an honest store of any size and page size, and the two stores that
\* misreport truncation, with little data and one key a page
Backends ==
    {be \in [n : BulkSizes, pageSize : 1..MaxPageSize, mode : Modes] :
        be.mode = "honest" \/ (be.pageSize = 1 /\ be.n = 3)}

Init ==
    /\ s3fs = NotConstructed
    /\ backend \in Backends
    /\ calls = [c \in Callers |-> IdleCall]
    /\ rs = [c \in Callers |-> ClosedReader]
    /\ log = [c \in Callers |-> <<>>]
    /\ srv = NotStarted

\* the filesystem's calls
Next ==
    \/ Startup
    \/ \E c \in Callers, name \in Paths : ReadDir(c, name)
    \/ \E c \in Callers, name \in Paths : Stat(c, name)
    \/ \E c \in Callers, name \in Paths : Size(c, name)
    \/ \E c \in Callers, name \in Paths : Open(c, name)
    \/ \E c \in Callers, fault \in Faults : ListBuckets(c, fault)
    \/ \E c \in Callers, fault \in Faults : ListObjects(c, fault)
    \/ \E c \in Callers, fault \in Faults : HeadBucket(c, fault)
    \/ \E c \in Callers, fault \in Faults : HeadObject(c, fault)
    \/ \E c \in Callers : Classify(c)
    \/ \E c \in Callers : Return(c)

Spec == Init /\ [][Next]_vars

\* the streams: Stat and Open of a path, then Read and Seek on the stream,
\* over one honest backend
InitStream ==
    /\ Init
    /\ backend = [n |-> 3, pageSize |-> MaxPageSize, mode |-> "honest"]

NextStream ==
    \/ Startup
    \/ \E c \in Callers, name \in Paths : Stat(c, name)
    \/ \E c \in Callers, name \in Paths : Open(c, name)
    \/ \E c \in Callers, fault \in Faults : ListObjects(c, fault)
    \/ \E c \in Callers, fault \in Faults : HeadBucket(c, fault)
    \/ \E c \in Callers, fault \in Faults : HeadObject(c, fault)
    \/ \E c \in Callers, len \in 1..MaxBuf, fault \in {Nil, NetworkError}, lenient \in BOOLEAN :
           Read(c, len, fault, lenient)
    \/ \E c \in Callers, offset \in (0 - MaxSeek)..MaxSeek, whence \in Whences :
           Seek(c, offset, whence)
    \/ \E c \in Callers : Return(c)

StreamSpec == InitStream /\ [][NextStream]_vars

\* every call of the filesystem and of the streams it opens, and the
\* cancellation of a call's context, over the one honest backend
NextAll ==
    \/ Next
    \/ \E c \in Callers : Cancel(c)
    \/ \E c \in Callers, len \in 1..MaxBuf, fault \in {Nil, NetworkError}, lenient \in BOOLEAN :
           Read(c, len, fault, lenient)
    \/ \E c \in Callers, offset \in (0 - MaxSeek)..MaxSeek, whence \in Whences :
           Seek(c, offset, whence)

AllSpec == InitStream /\ [][NextAll]_vars

\* two callers whose calls interleave request by request on one
\* filesystem, over a store that answers one key a page
Concurrent == {"c1", "c2"}

ConcurrentPaths ==
    { <<SLASH>>, <<SLASH, "sub">>, <<SLASH, "big">>, <<SLASH, "a.txt">>,
      <<SLASH, "docs", SLASH, "sub">> }

InitConcurrent ==
    /\ s3fs = NotConstructed
    /\ backend = [n |-> 3, pageSize |-> 1, mode |-> "honest"]
    /\ calls = [c \in Concurrent |-> IdleCall]
    /\ rs = [c \in Concurrent |-> ClosedReader]
    /\ log = [c \in Concurrent |-> <<>>]
    /\ srv = NotStarted

NextConcurrent ==
    \/ Startup
    \/ \E c \in Concurrent, name \in ConcurrentPaths : ReadDir(c, name)
    \/ \E c \in Concurrent, name \in ConcurrentPaths : Stat(c, name)
    \/ \E c \in Concurrent, name \in ConcurrentPaths : Size(c, name)
    \/ \E c \in Concurrent, name \in ConcurrentPaths : Open(c, name)
    \/ \E c \in Concurrent : ListBuckets(c, Nil)
    \/ \E c \in Concurrent : ListObjects(c, Nil)
    \/ \E c \in Concurrent : HeadBucket(c, Nil)
    \/ \E c \in Concurrent : HeadObject(c, Nil)
    \/ \E c \in Concurrent : Return(c)

ConcurrentSpec == InitConcurrent /\ [][NextConcurrent]_vars

\* CheckPath on every path of PathInputs
InitPath ==
    /\ s3fs = NotConstructed
    /\ backend = [n |-> 3, pageSize |-> MaxPageSize, mode |-> "honest"]
    /\ calls = [c \in Callers |-> IdleCall]
    /\ rs = [c \in Callers |-> ClosedReader]
    /\ log = [c \in Callers |-> <<>>]
    /\ \E p \in PathInputs :
           srv = [NotStarted EXCEPT !.check = [p |-> p, pc |-> "call", ok |-> FALSE]]

NextPath == CheckPathReturn

PathSpec == InitPath /\ [][NextPath]_vars

\* the serve command under every configuration of Configs
InitServe ==
    /\ s3fs = NotConstructed
    /\ backend = [n |-> 3, pageSize |-> MaxPageSize, mode |-> "honest"]
    /\ calls = [c \in Callers |-> IdleCall]
    /\ rs = [c \in Callers |-> ClosedReader]
    /\ log = [c \in Callers |-> <<>>]
    /\ \E v \in Configs : srv = [NotStarted EXCEPT !.pc = "start", !.config = v]

NextServe ==
    \/ RunServe
    \/ Configure
    \/ DryRun
    \/ StartRedirect
    \/ StartServer

ServeSpec == InitServe /\ [][NextServe]_vars

\* Stat of both object-store file systems, pkg/s3fs and pkg/fs, over the
\* one honest backend
NextFS ==
    \/ Startup
    \/ \E c \in Callers, name \in Paths : Stat(c, name)
    \/ \E c \in Callers, name \in Paths : StatFS(c, name)
    \/ \E c \in Callers, fault \in Faults : ListObjects(c, fault)
    \/ \E c \in Callers, fault \in Faults : HeadBucket(c, fault)
    \/ \E c \in Callers, fault \in Faults : HeadObject(c, fault)
    \/ \E c \in Callers : Return(c)

FSSpec == InitStream /\ [][NextFS]_vars

\* the serve command under every configuration of SiteConfigs, and the
\* requests its handler answers
InitHandler ==
    /\ s3fs = NotConstructed
    /\ backend = [n |-> 3, pageSize |-> MaxPageSize, mode |-> "honest"]
    /\ calls = [c \in Callers |-> IdleCall]
    /\ rs = [c \in Callers |-> ClosedReader]
    /\ log = [c \in Callers |-> <<>>]
    /\ \E v \in SiteConfigs : srv = [NotStarted EXCEPT !.pc = "start", !.config = v]

NextHandler ==
    \/ RunServe
    \/ Configure
    \/ StartServer
    \/ \E tlsServerName \in ServerNames, trimmedPath \in RequestPaths, slashed \in BOOLEAN,
          first \in Answers, second \in Answers, executes \in BOOLEAN :
           Handle(tlsServerName, trimmedPath, slashed, first, second, executes)
    \/ NextRequest

HandlerSpec == InitHandler /\ [][NextHandler]_vars

\* ------------------------------------------------------------------ claims
ReadDirDone(c) == calls[c].op = "ReadDir" /\ calls[c].pc = "done"

\* the requests of one operation among the logged ones
Requests(c, op) == {j \in 1..Len(log[c]) : log[c][j].op = op}

\* C1: under a limit maxEntries >= 0 (0 included), ReadDir returns at most
\* maxEntries entries, for objects of a bucket as for the buckets of the
\* account.
C1_AtMostMaxEntries ==
    \A c \in Callers :
        ReadDirDone(c) /\ s3fs.maxEntries >= 0
            => Len(calls[c].entries) <= s3fs.maxEntries

\* what an honest store holds under the prefix a returned ReadDir listed
Listed(c) == ListingItems(calls[c].bucket, backend.n, calls[c].prefix)

UnlimitedListing(c) ==
    /\ ReadDirDone(c)
    /\ calls[c].err = Nil
    /\ Len(calls[c].bucket) > 0
    /\ s3fs.maxEntries = Unlimited
    /\ backend.mode = "honest"

\* C2 as claimed: with maxEntries = -1, ReadDir returns one entry per key
\* or common prefix under the prefix, whatever the page size, so the same
\* number under every page size.
C2_SameCountAnyPageSize ==
    \A c \in Callers :
        UnlimitedListing(c) => Len(calls[c].entries) = Len(Listed(c))

\* C2 amended: with maxEntries = -1, ReadDir returns one entry per key or
\* common prefix under the prefix when these fit in 20 pages of the store's
\* page size, and the first 20 pages of them when they do not.
C2_SameCountWithin20Pages ==
    \A c \in Callers :
        UnlimitedListing(c) =>
            Len(calls[c].entries) = Min(Len(Listed(c)), 20 * backend.pageSize)

C2_Witness ==
    \E c \in Callers :
        /\ UnlimitedListing(c)
        /\ Len(log[c]) > 1
        /\ backend.pageSize > 1
        /\ Len(calls[c].entries) = Len(Listed(c))

\* C4: no descriptor of a stored object says file of size 0: an entry of
\* ReadDir that names a zero-byte object of the listing is a directory, and
\* so is what Stat answers from the metadata of a zero-byte object.
C4_ZeroByteIsDir ==
    \A c \in Callers :
        /\ \A j \in 1..Len(calls[c].entries) :
               LET e == calls[c].entries[j]
               IN /\ ~(e.size = 0 /\ ~e.dir)
                  /\ \A k \in 1..Len(Listed(c)) :
                         ( /\ ~Listed(c)[k].cp
                           /\ Listed(c)[k].size = 0
                           /\ EntryName(s3fs, calls[c].bucket, Listed(c)[k].key) = e.name )
                             => e.dir
        /\ (calls[c].op = "Stat" /\ calls[c].pc = "done" /\ calls[c].err = Nil)
               => ~(calls[c].fi.size = 0 /\ ~calls[c].fi.dir)

C4_Witness ==
    \E c \in Callers :
        /\ ReadDirDone(c)
        /\ \E j \in 1..Len(calls[c].entries), k \in 1..Len(Listed(c)) :
               /\ ~Listed(c)[k].cp
               /\ Listed(c)[k].size = 0
               /\ EntryName(s3fs, calls[c].bucket, Listed(c)[k].key) = calls[c].entries[j].name
               /\ calls[c].entries[j].dir
               /\ calls[c].entries[j].modTime = Listed(c)[k].lastModified

\* an error that is, or wraps, a response error of status 404
Wraps404(err) == \E j \in 1..Len(err) : err[j].t = "ResponseError" /\ err[j].status = 404

\* C5: IsNotExist(err) is true exactly when err is or wraps a response
\* error of status 404; the error Stat returns after a failed listing is
\* classified as the listing's response is.
C5_NotExistIff404 ==
    \A c \in Callers :
        calls[c].asked =>
            /\ calls[c].notExist = Wraps404(calls[c].err)
            /\ ( /\ calls[c].op = "Stat"
                 /\ Len(log[c]) > 0
                 /\ log[c][Len(log[c])].op = "ListObjects"
                 /\ log[c][Len(log[c])].err # Nil )
                   => calls[c].notExist = Wraps404(log[c][Len(log[c])].err)

C5_Witness ==
    \E c \in Callers :
        /\ calls[c].asked
        /\ calls[c].op = "Stat"
        /\ Len(log[c]) > 0
        /\ log[c][Len(log[c])].op = "ListObjects"
        /\ calls[c].err = Errorf(ResponseError(404))
        /\ calls[c].notExist

\* C6: no S3FileSystem with an empty bucket and a prefix exists, so no call
\* runs on one.
C6_NoPrefixWithoutBucket ==
    /\ ~(s3fs.constructed /\ Len(s3fs.bucket) = 0 /\ Len(s3fs.prefix) # 0)
    /\ \A c \in Callers :
           calls[c].op # "none" => ~(Len(s3fs.bucket) = 0 /\ Len(s3fs.prefix) # 0)

\* C7: a page request of ReadDir that fails is the last request of the
\* call (no retry, no further page), and the ReadDir call returns that
\* request's error and no entries.
C7_FailedPageAborts ==
    \A c \in Callers :
        \A j \in Requests(c, "ListObjects") :
            log[c][j].err # Nil =>
                /\ j = Len(log[c])
                /\ calls[c].pc = "done"
                /\ calls[c].entries = <<>>
                /\ calls[c].op = "ReadDir" => calls[c].err = log[c][j].err

C7_Witness ==
    \E c \in Callers :
        /\ ReadDirDone(c)
        /\ Len(log[c]) > 1
        /\ log[c][Len(log[c])].err # Nil
        /\ Len(calls[c].directoryEntries) > 0
        /\ calls[c].entries = <<>>
        /\ calls[c].err = log[c][Len(log[c])].err

\* C8: a ReadDir call (made by the caller or by Stat) makes at most 20
\* ListObjects requests, one per iteration of its loop, each answered
\* before the next is made, and its loop has ended once the twentieth is
\* answered.
C8_AtMost20Pages ==
    \A c \in Callers :
        /\ Cardinality(Requests(c, "ListObjects")) <= 20
        /\ calls[c].pc = "ListObjects" => Cardinality(Requests(c, "ListObjects")) = calls[c].i
        /\ Cardinality(Requests(c, "ListObjects")) = 20 => calls[c].pc # "ListObjects"
        /\ (calls[c].op = "ReadDir" /\ Cardinality(Requests(c, "ListObjects")) = 20)
               => calls[c].pc = "done"

C8_Witness ==
    \E c \in Callers :
        /\ ReadDirDone(c)
        /\ backend.mode = "alwaysTruncated"
        /\ Cardinality(Requests(c, "ListObjects")) = 20

\* a stream read from offset 0 to the end of the stream by Read calls alone
ReadThrough(c) == rs[c].open /\ rs[c].run.on /\ rs[c].run.eof

\* C3: when Stat(p) answered a file, the Read calls on Open(p), from the
\* start to the end of the stream, report Stat(p).Size() bytes in all.
C3_OpenReadsStatSize ==
    \A c \in Callers :
        ( /\ calls[c].op = "Open"
          /\ calls[c].prior.valid
          /\ ~calls[c].prior.dir
          /\ ReadThrough(c)
          /\ rs[c].run.fresh )
            => Len(rs[c].run.bytes) = calls[c].prior.size

\* C9: a Read that follows a Seek to an offset at or beyond the size
\* returns 0 and io.EOF, makes no fetch and leaves the offset where it was.
C9_ReadBeyondSizeIsEOF ==
    [][\A c \in Callers :
           ( /\ rs[c].open
             /\ rs[c].lastOp = "Seek"
             /\ rs[c].offset >= rs[c].size
             /\ rs'[c].open
             /\ rs'[c].lastOp = "Read" )
               => /\ rs'[c].n = 0
                  /\ rs'[c].err = EOF
                  /\ log'[c] = <<>>
                  /\ rs'[c].offset = rs[c].offset]_vars

C9_Witness ==
    \E c \in Callers :
        /\ rs[c].open
        /\ rs[c].lastOp = "Read"
        /\ rs[c].offset > rs[c].size
        /\ rs[c].size > 0
        /\ rs[c].err = EOF
        /\ log[c] = <<>>

\* the bytes of the object a stream was opened on
StreamContent(c) ==
    Content(Objects(rs[c].bucket, backend.n)
                [CHOOSE i \in FindObject(rs[c].bucket, backend.n, rs[c].key) : TRUE])

\* C10: after Seek(0, start), the bytes the Read calls report up to the end
\* of the stream are the bytes of the object, in order.
C10_RewindReadsContent ==
    \A c \in Callers :
        (ReadThrough(c) /\ ~rs[c].run.fresh) => rs[c].run.bytes = StreamContent(c)

\* a returned ReadDir("/") on a filesystem with no bucket configured
RootListing(c) ==
    /\ ReadDirDone(c)
    /\ Len(s3fs.bucket) = 0
    /\ calls[c].name = <<SLASH>>

\* C11: with no bucket configured, ReadDir("/") makes exactly one request,
\* a ListBuckets on the default region's client, and no ListObjects; when
\* the request succeeds its entries are the account's buckets in the
\* store's order, one entry each, a directory of size 0 dated with the
\* bucket's creation date, and nothing but the maxEntries cap shortens the
\* list: all buckets without a limit, at least min(maxEntries, buckets)
\* of them under one.
C11_RootListsBuckets ==
    \A c \in Callers :
        RootListing(c) =>
            /\ Len(log[c]) = 1
            /\ log[c][1].op = "ListBuckets"
            /\ log[c][1].region = s3fs.defaultRegion
            /\ Requests(c, "ListObjects") = {}
            /\ calls[c].err = Nil =>
                   /\ Len(calls[c].entries) <= Len(AccountBuckets)
                   /\ \A j \in 1..Len(calls[c].entries) :
                          calls[c].entries[j] =
                              [name |-> AccountBuckets[j].name,
                               modTime |-> AccountBuckets[j].creationDate,
                               dir |-> TRUE, size |-> 0]
                   /\ s3fs.maxEntries = Unlimited
                          => Len(calls[c].entries) = Len(AccountBuckets)
                   /\ s3fs.maxEntries # Unlimited
                          => Len(calls[c].entries) >= Min(s3fs.maxEntries, Len(AccountBuckets))

C11_Witness ==
    \E c \in Callers :
        /\ RootListing(c)
        /\ calls[c].err = Nil
        /\ s3fs.maxEntries = 2
        /\ Len(calls[c].entries) = 2
        /\ calls[c].entries[2].modTime = 5

\* the set of (name, dir, size) of the entries a call returned
EntrySet(c) ==
    {[name |-> calls[c].entries[j].name, dir |-> calls[c].entries[j].dir,
      size |-> calls[c].entries[j].size] : j \in 1..Len(calls[c].entries)}

\* C12: ReadDir(path) on an honest store, without a limit, returns one
\* entry per immediate child of the path and none for the listed directory
\* itself; for bucket docs (a.txt of 10 bytes, the marker sub/, sub/b.txt
\* of 5 bytes) ReadDir("/") returns a.txt (file, 10) and sub/ (directory,
\* 0) and ReadDir("/sub") returns sub/b.txt (file, 5) alone.
C12_OneEntryPerChild ==
    \A c \in Callers :
        (UnlimitedListing(c) /\ Len(s3fs.prefix) = 0) =>
            /\ \A j \in 1..Len(calls[c].entries) :
                   calls[c].entries[j].name # EntryName(s3fs, calls[c].bucket, calls[c].prefix)
            /\ (s3fs.bucket = Docs /\ calls[c].name = <<SLASH>>) =>
                   /\ Len(calls[c].entries) = 2
                   /\ EntrySet(c) = {[name |-> <<SLASH, "a.txt">>, dir |-> FALSE, size |-> 10],
                                     [name |-> <<SLASH, "sub", SLASH>>, dir |-> TRUE, size |-> 0]}
            /\ (s3fs.bucket = Docs /\ calls[c].name = <<SLASH, "sub">>) =>
                   /\ Len(calls[c].entries) = 1
                   /\ EntrySet(c) = {[name |-> <<SLASH, "sub", SLASH, "b.txt">>,
                                      dir |-> FALSE, size |-> 5]}

StatDone(c) == calls[c].op = "Stat" /\ calls[c].pc = "done"

\* the creation dates the filesystem was constructed with
KnownDates == {s3fs.bucketCreationDates[b] : b \in DOMAIN s3fs.bucketCreationDates}

\* C13: with no bucket configured, Stat("/") makes no remote call and
\* answers a directory of size 0 whose modification time is the earliest
\* of the creation dates of the buckets known at construction.
C13_RootStatEarliestDate ==
    \A c \in Callers :
        ( /\ StatDone(c)
          /\ Len(s3fs.bucket) = 0
          /\ Len(s3fs.prefix) = 0
          /\ calls[c].name = <<SLASH>>
          /\ KnownDates # {} )
            => /\ log[c] = <<>>
               /\ calls[c].err = Nil
               /\ calls[c].fi.dir
               /\ calls[c].fi.size = 0
               /\ calls[c].fi.modTime \in KnownDates
               /\ \A t \in KnownDates : calls[c].fi.modTime <= t

\* C14: every request for a bucket b (HeadBucket, HeadObject, ListObjects,
\* GetObject) goes through the client of bucketRegions[b] when b is in the
\* map and through the default region's client when it is not.
C14_RegionOfBucket ==
    \A c \in Callers :
        \A j \in 1..Len(log[c]) :
            log[c][j].op # "ListBuckets" =>
                /\ log[c][j].bucket \in DOMAIN s3fs.bucketRegions
                       => log[c][j].region = s3fs.bucketRegions[log[c][j].bucket]
                /\ log[c][j].bucket \notin DOMAIN s3fs.bucketRegions
                       => log[c][j].region = s3fs.defaultRegion

C14_Witness ==
    \E c \in Callers :
        /\ Len(log[c]) = 1
        /\ log[c][1].op = "GetObject"
        /\ log[c][1].bucket = Docs
        /\ log[c][1].region = OtherRegion
        /\ log[c][1].err = Nil

\* C15: every request of a call is made with the context the call was
\* given; a request made once that context is cancelled fails and is the
\* call's last; and a ReadDir whose context was cancelled between two pages
\* returns the error of the failed page and no entries.
C15_ContextOnEveryCall ==
    \A c \in Callers :
        \A j \in 1..Len(log[c]) :
            /\ log[c][j].ctx.name = "ctx"
            /\ log[c][j].ctx.cancelled =>
                   /\ log[c][j].err # Nil
                   /\ j = Len(log[c])
                   /\ calls[c].op \in {"ReadDir", "Stat", "Size"} =>
                          /\ calls[c].pc = "done"
                          /\ calls[c].err # Nil
                          /\ calls[c].entries = <<>>

C15_Witness ==
    \E c \in Callers :
        /\ ReadDirDone(c)
        /\ Len(log[c]) = 2
        /\ log[c][1].op = "ListObjects"
        /\ log[c][1].err = Nil
        /\ ~log[c][1].ctx.cancelled
        /\ log[c][2].ctx.cancelled
        /\ calls[c].err = Canceled
        /\ calls[c].entries = <<>>
        /\ Len(calls[c].directoryEntries) > 0

\* what a call returns when it runs alone, start to end, against the store
AloneResult(pc, entries, fi, size, err) ==
    [pc |-> pc, entries |-> entries, fi |-> fi, size |-> size, err |-> err]

RECURSIVE ListAlone(_, _, _, _, _, _)
ListAlone(fs, bucket, prefix, i, marker, directoryEntries) ==
    LET out == S3ListObjects(backend, bucket, prefix, marker, MaxKeys(fs))
        page == ReadDirPage(fs, bucket, directoryEntries, out)
    IN IF out.err # Nil THEN [entries |-> <<>>, err |-> out.err]
       ELSE IF page.break \/ i + 1 >= 20 THEN [entries |-> page.entries, err |-> Nil]
       ELSE ListAlone(fs, bucket, prefix, i + 1, out.NextMarker, page.entries)

ReadDirAlone(fs, name) ==
    LET target == ReadDirTarget(fs, name)
    IN IF Len(target.bucket) = 0
       THEN [entries |-> AppendUntil(<<>>,
                             [j \in 1..Len(AccountBuckets) |-> BucketEntry(AccountBuckets[j])],
                             fs.maxEntries),
             err |-> Nil]
       ELSE ListAlone(fs, target.bucket, target.prefix, 0, NoMarker, <<>>)

HeadBucketAlone(fs, name, bucket) ==
    IF S3HeadBucket(bucket) # Nil
    THEN AloneResult("done", <<>>, NoFileInfo, 0, S3HeadBucket(bucket))
    ELSE AloneResult("done", <<>>,
                     NewS3FileInfo(name, Lookup(fs.bucketCreationDates, bucket, ZeroTime), TRUE, 0),
                     0, Nil)

HeadObjectAlone(fs, name) ==
    LET at == parse(fs, name)
        out == S3HeadObject(backend, at.bucket, at.key)
    IN IF out.err # Nil THEN AloneResult("done", <<>>, NoFileInfo, 0, out.err)
       ELSE AloneResult("done", <<>>,
                        NewS3FileInfo(name, out.LastModified, out.ContentLength = 0,
                                      out.ContentLength), 0, Nil)

StatAlone(fs, name) ==
    LET nameParts == Split(TrimPrefix(name, <<SLASH>>))
        listed == ReadDirAlone(fs, name)
        dated == IF Len(fs.bucket) = 0 THEN nameParts[1] ELSE fs.bucket
    IN IF Len(fs.bucket) = 0 /\ Len(fs.prefix) # 0
       THEN AloneResult("done", <<>>, NoFileInfo, 0, ConfigError)
       ELSE IF Len(fs.bucket) = 0 /\ name = <<SLASH>>
       THEN AloneResult("done", <<>>, NewS3FileInfo(name, fs.earliestCreationDate, TRUE, 0), 0, Nil)
       ELSE IF Len(fs.bucket) = 0 /\ Len(nameParts) = 1
       THEN HeadBucketAlone(fs, name, nameParts[1])
       ELSE IF Len(fs.bucket) # 0 /\ name = <<SLASH>> /\ Len(fs.prefix) = 0
       THEN HeadBucketAlone(fs, name, fs.bucket)
       ELSE IF listed.err # Nil
       THEN AloneResult("done", <<>>, NoFileInfo, 0, Errorf(listed.err))
       ELSE IF Len(listed.entries) > 0
       THEN AloneResult("done", <<>>,
                        NewS3FileInfo(name, Lookup(fs.bucketCreationDates, dated, ZeroTime),
                                      TRUE, 0), 0, Nil)
       ELSE HeadObjectAlone(fs, name)

SizeAlone(fs, name) ==
    LET at == parse(fs, name)
        out == S3HeadObject(backend, at.bucket, at.key)
    IN IF Len(fs.bucket) = 0 /\ Len(fs.prefix) # 0
       THEN AloneResult("panic", <<>>, NoFileInfo, 0, Nil)
       ELSE IF out.err # Nil THEN AloneResult("done", <<>>, NoFileInfo, 0, out.err)
       ELSE AloneResult("done", <<>>, NoFileInfo, out.ContentLength, Nil)

Alone(fs, op, name) ==
    IF op = "ReadDir"
    THEN AloneResult("done", ReadDirAlone(fs, name).entries, NoFileInfo, 0,
                     ReadDirAlone(fs, name).err)
    ELSE IF op = "Stat" THEN StatAlone(fs, name)
    ELSE SizeAlone(fs, name)

\* C16: when the calls of two callers interleave request by request on
\* one filesystem, no step changes a field of the constructed instance,
\* every step changes the locals, the stream and the requests of one
\* caller at most, and every call returns what it returns when run alone
\* against the same store.
C16_ConcurrentCallsIndependent ==
    /\ [](\A c \in Concurrent :
              Returned(c) =>
                  AloneResult(calls[c].pc, calls[c].entries, calls[c].fi, calls[c].size,
                              calls[c].err)
                      = Alone(s3fs, calls[c].op, calls[c].name))
    /\ [][ /\ s3fs.constructed => s3fs' = s3fs
           /\ \A c, d \in Concurrent :
                  (c # d /\ <<calls[c], rs[c], log[c]>> # <<calls'[c], rs'[c], log'[c]>>)
                      => <<calls[d], rs[d], log[d]>> = <<calls'[d], rs'[d], log'[d]>> ]_vars

\* both callers are inside a listing of several pages, of different
\* directories, each past its first page
C16_Witness ==
    /\ DOMAIN calls = Concurrent
    /\ calls["c1"].pc = "ListObjects"
    /\ calls["c2"].pc = "ListObjects"
    /\ calls["c1"].i > 0
    /\ calls["c2"].i > 0
    /\ calls["c1"].prefix # calls["c2"].prefix
    /\ calls["c1"].marker # calls["c2"].marker

\* an Open call whose stream, if any, has not been read or sought yet
OpenOnly(c) == calls[c].op = "Open" /\ rs[c].lastOp = "none"

\* a step that is a Read of c's stream
ReadStep(c) ==
    /\ rs[c].open
    /\ calls'[c] = calls[c]
    /\ rs'[c].lastOp = "Read"
    /\ (rs'[c] # rs[c] \/ log'[c] # log[c])

\* C17: from its call to its return Open makes metadata (HeadObject)
\* requests only and no GetObject; the stream it returns is at offset 0
\* and has the size the metadata request reported, the size of the
\* object; a GetObject is made by a Read alone, exactly one by a Read at
\* an offset below the size and none by a Read at the end of the stream.
C17_OpenFetchesNoData ==
    /\ [](\A c \in Callers :
              OpenOnly(c) =>
                  /\ \A j \in 1..Len(log[c]) : log[c][j].op = "HeadObject"
                  /\ rs[c].open =>
                         /\ calls[c].pc = "done"
                         /\ Len(log[c]) = 1
                         /\ rs[c].offset = 0
                         /\ rs[c].size = calls[c].size
                         /\ rs[c].size = S3HeadObject(backend, rs[c].bucket, rs[c].key).ContentLength)
    /\ [][\A c \in Callers :
              /\ (log'[c] # log[c] /\ (Requests(c, "GetObject"))' # {})
                     => (ReadStep(c) /\ rs[c].offset < rs[c].size)
              /\ ReadStep(c) =>
                     IF rs[c].offset < rs[c].size
                     THEN /\ Len(log'[c]) = 1
                          /\ log'[c][1].op = "GetObject"
                          /\ log'[c][1].first = rs[c].offset
                     ELSE log'[c] = <<>>]_vars

C17_Witness ==
    \E c \in Callers :
        /\ OpenOnly(c)
        /\ rs[c].open
        /\ rs[c].offset = 0
        /\ rs[c].size = 10
        /\ Len(log[c]) = 1
        /\ log[c][1].op = "HeadObject"

\* the elements of a path: what stands between its slashes
Elements(p) == {Split(p)[i] : i \in 1..Len(Split(p))}

\* C18: CheckPath(p) is false for every path p that has an element "." or
\* "..", the paths "." and ".." themselves included.
C18_NoDotElements ==
    (srv.check.pc = "return" /\ (<<".">> \in Elements(srv.check.p) \/ <<"..">> \in Elements(srv.check.p)))
        => ~srv.check.ok

\* C19: serve run with --dry-run on a configuration checkConfig accepts
\* returns success, starts neither the https listener nor the redirect
\* listener, and writes nothing to its output.
C19_DryRunSilentSuccess ==
    (srv.accepted /\ srv.config.dryRun) =>
        /\ ~srv.https
        /\ ~srv.redirect
        /\ srv.output = <<>>
        /\ srv.pc = "exited" => srv.result = "success"

\* C20: a Read at an offset below the size calls the fetch exactly once,
\* with the current offset and the caller's buffer (one request, for the
\* range that starts at the offset); it returns the n and the error of the
\* fetch (n = 0 with the error of a failed request, the buffer's length
\* and nil otherwise), moves the offset forward by n when n > 0 and leaves
\* it otherwise; and no Read changes the size.
C20_ReadAdvancesByFetched ==
    [][\A c \in Callers :
           ReadStep(c) =>
               /\ rs'[c].size = rs[c].size
               /\ rs[c].offset < rs[c].size =>
                      /\ Len(log'[c]) = 1
                      /\ log'[c][1].op = "GetObject"
                      /\ log'[c][1].first = rs[c].offset
                      /\ log'[c][1].last - log'[c][1].first + 1 \in 1..MaxBuf
                      /\ rs'[c].err = log'[c][1].err
                      /\ rs'[c].n = IF log'[c][1].err # Nil THEN 0
                                    ELSE log'[c][1].last - log'[c][1].first + 1
                      /\ rs'[c].offset = IF rs'[c].n > 0 THEN rs[c].offset + rs'[c].n
                                         ELSE rs[c].offset]_vars

C20_Witness ==
    \E c \in Callers :
        /\ rs[c].open
        /\ rs[c].lastOp = "Read"
        /\ rs[c].err = Nil
        /\ rs[c].n = 2
        /\ rs[c].offset = 3
        /\ Len(log[c]) = 1
        /\ log[c][1].first = 1

\* C21: Seek(delta, origin) with origin start, current or end sets the
\* offset to delta, offset + delta or size + delta, unclamped: it returns
\* the new offset and no error also when that offset is negative or beyond
\* the size, makes no request, and leaves the size as it was.
C21_SeekSetsOffsetUnclamped ==
    [][\A c \in Callers, delta \in (0 - MaxSeek)..MaxSeek :
           /\ Seek(c, delta, "SeekStart") => rs'[c].offset = delta
           /\ Seek(c, delta, "SeekCurrent") => rs'[c].offset = rs[c].offset + delta
           /\ Seek(c, delta, "SeekEnd") => rs'[c].offset = rs[c].size + delta
           /\ \A origin \in {"SeekStart", "SeekCurrent", "SeekEnd"} :
                  Seek(c, delta, origin) =>
                      /\ rs'[c].n = rs'[c].offset
                      /\ rs'[c].err = Nil
                      /\ rs'[c].size = rs[c].size
                      /\ log'[c] = <<>>]_vars

\* a stream of a non-empty object sought to before its start
C21_Witness ==
    \E c \in Callers :
        /\ rs[c].open
        /\ rs[c].size > 0
        /\ rs[c].lastOp = "Seek"
        /\ rs[c].err = Nil
        /\ rs[c].offset < 0
        /\ rs[c].n = rs[c].offset

\* a returned Stat of a path that is neither the root nor, with no bucket
\* configured, the name of a bucket
StatOfKey(c) ==
    /\ StatDone(c)
    /\ calls[c].name # <<SLASH>>
    /\ Len(s3fs.bucket) = 0 => Len(Split(TrimPrefix(calls[c].name, <<SLASH>>))) > 1

\* C22: Stat of such a path first lists under key + "/".  When the listing
\* (the ReadDir of the path) succeeds with at least one entry Stat answers a directory of size 0 with
\* the creation date of the bucket and makes no metadata request; when it
\* succeeds with no entry Stat makes one metadata request for the key and
\* answers the object's size and modification time, or the error of that
\* request, which classifies as not-found when the store answered 404.
C22_StatListsThenHeads ==
    \A c \in Callers :
        StatOfKey(c) =>
            LET at == parse(s3fs, calls[c].name)
                lists == Requests(c, "ListObjects")
                heads == Requests(c, "HeadObject")
                found == FindObject(at.bucket, backend.n, at.key)
            IN /\ Len(log[c]) > 0
               /\ log[c][1].op = "ListObjects"
               /\ log[c][1].bucket = at.bucket
               /\ log[c][1].key = at.key \o <<SLASH>>
               /\ (\A j \in lists : log[c][j].err = Nil) =>
                      /\ at.bucket \in BucketNames
                      /\ IF Len(ListAlone(s3fs, at.bucket, at.key \o <<SLASH>>,
                                          0, NoMarker, <<>>).entries) > 0
                         THEN /\ heads = {}
                              /\ calls[c].err = Nil
                              /\ calls[c].fi = NewS3FileInfo(calls[c].name,
                                                    BucketOf(at.bucket).creationDate, TRUE, 0)
                         ELSE LET h == log[c][Len(log[c])]
                              IN /\ heads = {Len(log[c])}
                                 /\ h.bucket = at.bucket
                                 /\ h.key = at.key
                                 /\ found = {} => h.err # Nil
                                 /\ calls[c].err = h.err
                                 /\ h.err = ResponseError(404) => IsNotExist(calls[c].err)
                                 /\ h.err = Nil =>
                                        LET o == Objects(at.bucket, backend.n)[CHOOSE i \in found : TRUE]
                                        IN /\ calls[c].fi.size = o.size
                                           /\ calls[c].fi.modTime = o.lastModified

\* the entries of a returned ReadDir that come from a common prefix of the
\* listing: directories named after one
FromCommonPrefix(c) ==
    {k \in 1..Len(calls[c].entries) :
        /\ calls[c].entries[k].dir
        /\ \E i \in 1..Len(Listed(c)) :
               /\ Listed(c)[i].cp
               /\ calls[c].entries[k].name = EntryName(s3fs, calls[c].bucket, Listed(c)[i].key)}

\* C23: every entry ReadDir makes of a common prefix of a listing of
\* bucket b has the creation date bucketCreationDates records for b as its
\* modification time, with the bucket configured and with the bucket taken
\* from the first segment of the path.
C23_PrefixEntryDatedByBucket ==
    \A c \in Callers :
        (ReadDirDone(c) /\ calls[c].err = Nil /\ Len(calls[c].bucket) > 0) =>
            \A k \in FromCommonPrefix(c) :
                /\ calls[c].bucket \in DOMAIN s3fs.bucketCreationDates
                /\ calls[c].entries[k].modTime = s3fs.bucketCreationDates[calls[c].bucket]

\* the entries of the page that answered the j-th request of c's call:
\* its common prefixes in the order of the answer, then its objects
PageEntries(c, j) ==
    LET req == log[c][j]
        out == S3ListObjects(backend, req.bucket, req.key, req.marker, req.maxKeys)
    IN [i \in 1..Len(out.CommonPrefixes) |->
            CommonPrefixEntry(s3fs, req.bucket, out.CommonPrefixes[i])]
       \o [i \in 1..Len(out.Contents) |-> ObjectEntry(s3fs, req.bucket, out.Contents[i])]

\* the entries of the pages of the first n requests, in order
RECURSIVE Accumulated(_, _)
Accumulated(c, n) == IF n = 0 THEN <<>> ELSE Accumulated(c, n - 1) \o PageEntries(c, n)

\* the entry of an item of a listing
ItemEntry(c, item) ==
    IF item.cp THEN CommonPrefixEntry(s3fs, calls[c].bucket, item)
    ELSE ObjectEntry(s3fs, calls[c].bucket, item)

\* C24: under a limit maxEntries >= 1, ReadDir requests no page once the
\* entries of the pages it has reach maxEntries, and returns the first
\* maxEntries entries of the pages in order (in a page the common prefixes,
\* then the objects); a listing of fewer than maxEntries entries, paged
\* to its end by the store, is returned whole.
C24_CapStopsListing ==
    \A c \in Callers :
        ( /\ ReadDirDone(c)
          /\ calls[c].err = Nil
          /\ Len(calls[c].bucket) > 0
          /\ s3fs.maxEntries >= 1 ) =>
            LET n == Len(log[c])
                acc == Accumulated(c, n)
            IN /\ n >= 1
               /\ Len(Accumulated(c, n - 1)) < s3fs.maxEntries
               /\ calls[c].entries = SubSeq(acc, 1, Min(Len(acc), s3fs.maxEntries))
               /\ (backend.mode = "honest" /\ Len(Listed(c)) < s3fs.maxEntries) =>
                      /\ Len(calls[c].entries) = Len(Listed(c))
                      /\ {calls[c].entries[k] : k \in 1..Len(calls[c].entries)}
                             = {ItemEntry(c, Listed(c)[i]) : i \in 1..Len(Listed(c))}

\* a listing of more than two entries cut at two on its second page
C24_Witness ==
    \E c \in Callers :
        /\ ReadDirDone(c)
        /\ calls[c].err = Nil
        /\ Len(calls[c].bucket) > 0
        /\ s3fs.maxEntries = 2
        /\ Len(log[c]) = 2
        /\ Len(calls[c].entries) = 2
        /\ Len(Listed(c)) > 2

\* the handler called Stat on the requested path and Stat returned an error
StatOfRequestFailed ==
    /\ srv.req.pc = "done"
    /\ Len(srv.req.ops) > 0
    /\ srv.req.stat # Nil

\* C25: when Stat of the requested path fails, the handler answers 404 to
\* an error that IsNotExist accepts (303, the redirect to the public
\* location, under --behavior-not-found redirect) and 500 to every other
\* error; it calls neither ReadDir nor Open and serves nothing.
C25_StatErrorMapsToStatus ==
    StatOfRequestFailed =>
        /\ srv.req.ops = <<Called("Stat", srv.req.trimmedPath)>>
        /\ IsNotExist(srv.req.stat) =>
               srv.req.status = IF srv.config.notFound = "redirect" THEN 303 ELSE 404
        /\ ~IsNotExist(srv.req.stat) => srv.req.status = 500

\* a Stat answered 404 under --behavior-not-found redirect
C25_Witness ==
    /\ StatOfRequestFailed
    /\ IsNotExist(srv.req.stat)
    /\ srv.config.notFound = "redirect"
    /\ srv.req.status = 303

\* the request names a server that a non-empty sites map does not hold
UnknownSite ==
    /\ initSites(srv.config) # {}
    /\ \A pair \in initSites(srv.config) : pair[1] # srv.req.tlsServerName

\* C26: a request whose cleaned and trimmed path fails CheckPath, or whose
\* TLS server name a non-empty sites map does not hold, is answered 400
\* with no call on a file system; and every Stat, ReadDir and Open (the
\* Open of ServeFile) of the handler gets a path that CheckPath accepts.
C26_OnlyCheckedPathsReachFileSystem ==
    srv.req.pc # "none" =>
        /\ (~CheckPath(srv.req.trimmedPath) \/ UnknownSite) =>
               /\ srv.req.status = 400
               /\ srv.req.ops = <<>>
        /\ \A j \in 1..Len(srv.req.ops) : CheckPath(srv.req.ops[j].path)

\* C29: under every configuration checkConfig accepts, a request that
\* passes the site lookup is served by a file system initFileSystems
\* built: the path the lookup gives (the value of the sites map, the root
\* path without sites) is a key of the fileSystems map, and the handler
\* never calls Stat on a missing file system.
C29_SiteHasFileSystem ==
    (srv.req.pc # "none" /\ ~UnknownSite) =>
        /\ srv.req.pc # "panic"
        /\ \A pair \in initSites(srv.config) : pair[2] \in initFileSystems(srv.config)
        /\ initSites(srv.config) = {} => srv.config.rootPath \in initFileSystems(srv.config)

\* a returned Stat, of pkg/s3fs or of pkg/fs
AnyStatDone(c) == calls[c].op \in {"Stat", "fs.Stat"} /\ calls[c].pc = "done"

\* err carries cause: it is cause, or wraps it
DerivedFrom(err, cause) ==
    /\ Len(err) >= Len(cause)
    /\ SubSeq(err, Len(err) - Len(cause) + 1, Len(err)) = cause

\* C30: in pkg/s3fs and in pkg/fs, when a listing request of Stat fails,
\* Stat returns an error derived from that failure and makes no metadata
\* request after it: the failure never ends in a file descriptor or in the
\* error of the metadata request.
C30_ListingFailureFailsStat ==
    \A c \in Callers :
        AnyStatDone(c) =>
            \A j \in Requests(c, "ListObjects") :
                log[c][j].err # Nil =>
                    /\ j = Len(log[c])
                    /\ calls[c].err # Nil
                    /\ DerivedFrom(calls[c].err, log[c][j].err)

\* C27: whenever Stat(p) and Size(p) both succeed, on any content of the
\* store, Size(p) is the size Stat(p) reported, and the stream of a
\* successful Open(p) has that size too.
C27_SizeAgreesWithStat ==
    \A c \in Callers :
        (calls[c].pc = "done" /\ calls[c].err = Nil /\ calls[c].prior.valid) =>
            /\ calls[c].op = "Size" => calls[c].size = calls[c].prior.size
            /\ calls[c].op = "Open" => rs[c].size = calls[c].prior.size

\* C28: in one ReadDir call no page is listed twice and no key or common
\* prefix comes back twice: every request after the first carries the
\* marker that came with the page before it, whatever the store answers,
\* a truncated page without a next marker included.
C28_NoPageTwice ==
    \A c \in Callers :
        (ReadDirDone(c) /\ calls[c].err = Nil /\ Len(calls[c].bucket) > 0) =>
            /\ \A j \in 2..Len(log[c]) :
                   LET before == log[c][j - 1]
                       out == S3ListObjects(backend, before.bucket, before.key, before.marker,
                                            before.maxKeys)
                   IN /\ log[c][j].marker.set
                      /\ log[c][j].marker = out.NextMarker
            /\ \A j, k \in 1..Len(log[c]) : j # k => log[c][j].marker # log[c][k].marker
            /\ \A j, k \in 1..Len(calls[c].entries) :
                   j # k => calls[c].entries[j].name # calls[c].entries[k].name

====
